---- MODULE Spec2Model ----
(***************************************************************************)
(* A model of the aitelier FSM agent runtime: the execution context        *)
(* (memory append, step validation), the ReAct states (Think, Act,         *)
(* Observe, Error, End) with the ReActAgent driver, and the single-state   *)
(* Agent (Start, LLM, Error, End) with the FSMAgent driver.                *)
(*                                                                         *)
(* Text is modelled as a sequence of tokens: a token is a word, a tag, a   *)
(* label, a literal or one blank.  The string operations of the code       *)
(* (strip, startswith, endswith, split, replace) are computed on tokens.   *)
(***************************************************************************)
EXTENDS Integers, Sequences, FiniteSets, TLC

\* ------------------------------------------------------------------ bounds

\* state executions explored over the life of one agent object
MaxExec == 4
\* invocations of one agent object
MaxCalls == 2
\* largest configured max_iters
MaxItersBound == 2
\* largest configured max_retries
MaxRetriesBound == 2
\* entries kept of memory and history in the finite abstraction LiveSpec
Window == 1

\* ------------------------------------------------------------------ text

\* Python's None
NONE == "<None>"

\* one blank character
WS == " "

\* literals that eval() decodes to a mapping
DictLiterals == {"{}", "{'a':2,'b':3}"}

\* literals that eval() decodes to something that is no mapping
OtherLiterals == {"[1]"}

Last(s) == s[Len(s)]

RECURSIVE lstrip(_)
lstrip(s) == IF s # <<>> /\ Head(s) = WS THEN lstrip(Tail(s)) ELSE s

RECURSIVE rstrip(_)
rstrip(s) == IF s # <<>> /\ Last(s) = WS THEN rstrip(SubSeq(s, 1, Len(s) - 1)) ELSE s

\* str.strip()
strip(s) == rstrip(lstrip(s))

\* str.startswith(t) for a one-token t
startswith(s, t) == s # <<>> /\ Head(s) = t

\* str.endswith(t) for a one-token t
endswith(s, t) == s # <<>> /\ Last(s) = t

Positions(s, t) == {i \in 1..Len(s) : s[i] = t}

Min(S) == CHOOSE x \in S : \A y \in S : x <= y

Max(S) == CHOOSE x \in S : \A y \in S : x >= y

\* s.split(t)[0]: the text before the first t, all of s when t does not occur
SplitFirst(s, t) ==
    IF Positions(s, t) = {} THEN s ELSE SubSeq(s, 1, Min(Positions(s, t)) - 1)

\* s.split(t)[-1]: the text after the last t, all of s when t does not occur
SplitLast(s, t) ==
    IF Positions(s, t) = {} THEN s ELSE SubSeq(s, Max(Positions(s, t)) + 1, Len(s))

\* s.replace("Act: ", ""): every label "Act:" followed by a blank is removed
RECURSIVE ReplaceAct(_)
ReplaceAct(s) ==
    IF s = <<>> THEN <<>>
    ELSE IF Len(s) >= 2 /\ s[1] = "Act:" /\ s[2] = WS
         THEN ReplaceAct(SubSeq(s, 3, Len(s)))
         ELSE <<Head(s)>> \o ReplaceAct(Tail(s))

\* the two quotes-and-braces around the string value of a mapping {'t': '...'}
OpenText == "{'t':'"

CloseText == "'}"

\* the literal mapping {'t': '<words>'}, its string value given as tokens
TextMapping(words) == <<OpenText>> \o words \o <<CloseText>>

IsTextMapping(t) ==
    /\ Len(t) >= 2
    /\ t[1] = OpenText
    /\ Last(t) = CloseText
    /\ \A i \in 2..(Len(t) - 1) : t[i] \notin {OpenText, CloseText}

\* eval(text): a value for a single literal (blanks around it allowed),
\* an exception for anything else; the value is written as the tokens of
\* the literal
Eval(s) ==
    LET t == strip(s)
    IN  IF \/ Len(t) = 1 /\ t[1] \in DictLiterals \cup OtherLiterals
           \/ IsTextMapping(t)
        THEN [ok |-> TRUE, value |-> t]
        ELSE [ok |-> FALSE, value |-> <<>>]

\* tool(**tool_args) needs a mapping; anything else is a TypeError at the call
IsMapping(v) == (Len(v) = 1 /\ v[1] \in DictLiterals) \/ IsTextMapping(v)

\* ------------------------------------------------------------------ tables

ReActKinds == {"THINK", "ACT", "OBSERVE", "END", "ERROR"}

AgentKinds == {"START", "LLM", "ERROR", "END"}

\* valid_steps = None
NoTable == [configured |-> FALSE, table |-> <<>>]

Table(f) == [configured |-> TRUE, table |-> f]

\* a default table that forgets the key OBSERVE
DEFAULT_REACT_VALID_STEPS_no_observe ==
    Table([k \in ReActKinds \ {"OBSERVE"} |->
        CASE k = "THINK"   -> {"THINK", "ACT", "END", "ERROR"}
          [] k = "ACT"     -> {"OBSERVE", "ERROR"}
          [] k = "END"     -> {}
          [] k = "ERROR"   -> {"END"}])

DEFAULT_REACT_VALID_STEPS ==
    Table([k \in ReActKinds |->
        CASE k = "THINK"   -> {"THINK", "ACT", "END", "ERROR"}
          [] k = "ACT"     -> {"OBSERVE", "ERROR"}
          [] k = "OBSERVE" -> {"THINK", "ACT", "ERROR"}
          [] k = "END"     -> {}
          [] k = "ERROR"   -> {"END"}])

AGENT_VALID_STEPS ==
    Table([k \in AgentKinds |->
        CASE k = "START" -> {"LLM"}
          [] k = "LLM"   -> {"LLM", "END", "ERROR"}
          [] k = "ERROR" -> {"LLM"}
          [] k = "END"   -> {}])

\* valid_steps = {}: a table is configured and it has no keys
EmptyTable == Table(<<>>)

\* f without the key k
Without(f, k) == [x \in DOMAIN f \ {k} |-> f[x]]

\* the tables a ReActAgent is configured with here: the default, none, the
\* empty one, one that lacks the key OBSERVE, one whose THINK set lacks ACT
ReActTables ==
    { DEFAULT_REACT_VALID_STEPS,
      NoTable,
      EmptyTable,
      Table(Without(DEFAULT_REACT_VALID_STEPS.table, "OBSERVE")),
      Table([DEFAULT_REACT_VALID_STEPS.table EXCEPT !["THINK"] = {"THINK", "END", "ERROR"}]) }

\* the tables an Agent is configured with here: the default, none, the
\* empty one, one whose LLM set lacks END
AgentTables ==
    { AGENT_VALID_STEPS,
      NoTable,
      EmptyTable,
      Table([AGENT_VALID_STEPS.table EXCEPT !["LLM"] = {"LLM", "ERROR"}]) }

\* `not self.valid_steps`: None and the empty dict are both falsy
Falsy(valid_steps) == ~valid_steps.configured \/ DOMAIN valid_steps.table = {}

\* agents/_base.py validate_step: "True", "False", or the exception raised
validate_step_fsm(valid_steps, from_state, to_state) ==
    IF Falsy(valid_steps) THEN "True"
    ELSE IF from_state \notin DOMAIN valid_steps.table THEN "StateStepError"
    ELSE IF to_state \notin valid_steps.table[from_state] THEN "StateStepError"
    ELSE "False"

\* agents/base.py validate_step: the kinds are plain strings, so formatting
\* from_state.state_type in the second message raises AttributeError
validate_step(valid_steps, from_state, to_state) ==
    IF Falsy(valid_steps) THEN "True"
    ELSE IF from_state \notin DOMAIN valid_steps.table THEN "StateStepError"
    ELSE IF to_state \notin valid_steps.table[from_state] THEN "AttributeError"
    ELSE "False"

\* a validate_step that forgets the table once it has been consulted
validated_context_consuming(context, from_state, to_state) ==
    [context EXCEPT !.valid_steps = NoTable]

\* the context validate_step leaves: both implementations only read
\* self.valid_steps and assign nothing
validated_context(context, from_state, to_state) == context

Raises(outcome) == outcome \notin {"True", "False"}

\* ------------------------------------------------------------------ context

\* an add_to_memory that appends the stop word without looking at the content
add_to_memory_always(context, role, content) ==
    LET c == IF context.stop_word # NONE
             THEN content \o <<WS, context.stop_word>>
             ELSE content
    IN  [context EXCEPT !.memory = Append(@, [role |-> role, content |-> strip(c)])]

\* add_to_memory: the stop word is appended unless the stripped content ends
\* with it, the content is stripped, one entry is appended
add_to_memory(context, role, content) ==
    LET c == IF context.stop_word # NONE /\ ~endswith(strip(content), context.stop_word)
             THEN content \o <<WS, context.stop_word>>
             ELSE content
    IN  [context EXCEPT !.memory = Append(@, [role |-> role, content |-> strip(c)])]

\* ------------------------------------------------------------------ collaborators

\* the counters class Model declares
ModelCounters == {"input_tokens", "output_tokens", "generation_time"}

\* the model objects an agent is built with, each given by the attributes it
\* has beyond the interface: LLM (none), a subclass that also carries a
\* counter named inference_time, and Claude (the method _prepare_messages)
Models ==
    { ModelCounters,
      ModelCounters \cup {"inference_time"},
      ModelCounters \cup {"_prepare_messages"} }

\* Claude._prepare_messages: every message handed to generate has its content
\* stripped in place, and the messages are the entries of context.memory
prepare_messages(memory) ==
    [i \in 1..Len(memory) |-> [role |-> memory[i].role, content |-> strip(memory[i].content)]]

\* what context.model.generate(context.memory, ...) leaves of the context
generate(context) ==
    IF "_prepare_messages" \in context.model
    THEN [context EXCEPT !.memory = prepare_messages(context.memory)]
    ELSE context

\* the registry: tool.name of every tool
Tools == {<<"add">>}

\* what the wrapped function returns, and str(e) of what it raises
ToolResult == "5"

ToolErrorText == "boom"

\* a tool whose return value is lost on the way back to the state
Tool_execute_lost(tool_raises) == [raised |-> FALSE, result |-> NONE]

\* Tool.__call__ -> Tool.execute: an exception of the wrapped function is
\* caught and its text returned as the result
Tool_execute(tool_raises) ==
    [raised |-> FALSE, result |-> IF tool_raises THEN ToolErrorText ELSE ToolResult]

\* self.system.prompt: the rendered prompt ends with a line break
SystemPrompt == <<"SYSTEM", WS>>

Messages == {<<"add", WS, "2", WS, "and", WS, "3">>}

RAct(name, args) ==
    <<"Act:", WS, "<tool>", name, "</tool>", WS, "<args>", args, "</args>">>

RCall(name, args) == <<"<tool>", name, "</tool>", WS, "<args>", args, "</args>">>

\* a tool call whose args segment is the token sequence args
RCallSeq(name, args) == <<"<tool>">> \o name \o <<"</tool>", WS, "<args>">> \o args \o <<"</args>">>

\* a note whose text itself begins with the label of the Act state
ActNote == TextMapping(<<"Act:", WS, "x">>)

\* the first answer of the model in scenario A: a tool call with no label
\* before it and no blank between the tags
ScenarioCall == <<"<tool>", "add", "</tool>", "<args>", "{'a':2,'b':3}", "</args>">>

\* a tool call whose closing args tag is missing
Unclosed == <<"<tool>", "add", "</tool>", WS, "<args>", "{'a':2,'b':3}">>

\* a tool call with blanks around it and the stop sentinel after it
Padded(call) == <<WS>> \o call \o <<WS, "PAUSE", WS>>

\* the format the ReAct system prompt prescribes:
\* <state>KIND</state> <content>...</content>
TagStyle(kind, body) ==
    <<"<state>", kind, "</state>", WS, "<content>">> \o body \o <<"</content>">>

\* the label ThinkState.execute looks for
Label(kind) ==
    CASE kind = "Think" -> "Think:"
      [] kind = "Act" -> "Act:"
      [] kind = "End" -> "End:"

\* the same answer with the label in front: KIND: ...
LabelStyle(kind, body) == <<Label(kind), WS>> \o body

\* what the model answers to a ReActAgent
ReActResponses ==
    { <<"Think:", WS, "hm">>, <<"End:", WS, "5">>, <<WS, "hm">>,
      RAct("add", "{'a':2,'b':3}"), RAct("None", "{}"), RAct("sub", "{'a':2,'b':3}"),
      RAct("add", "[1]"), RAct("add", "oops"),
      <<"Act:", WS>> \o RCallSeq(<<"add">>, ActNote),
      Padded(RAct("add", "{'a':2,'b':3}")),
      ScenarioCall,
      <<"Act:", WS>> \o Unclosed,
      TagStyle("Think", <<"hm">>),
      <<"think:", WS, "hm">> }

\* what the model answers to an Agent
AgentResponses ==
    { <<"hm">>, RCall("add", "{'a':2,'b':3}"), RCall("None", "{}") \o <<WS, "why">>,
      RCall("sub", "{'a':2,'b':3}"), RCall("add", "[1]"), RCall("add", "oops"),
      RCall("None", "[1]"),
      RCallSeq(<<"add">>, ActNote),
      Padded(RCall("add", "{'a':2,'b':3}")),
      ScenarioCall,
      Unclosed }

\* ------------------------------------------------------------------ states

NoState == [state_type |-> "NONE"]

ThinkState(retry_count) == [state_type |-> "THINK", retry_count |-> retry_count]

ActState == [state_type |-> "ACT"]

ObserveState(observation) == [state_type |-> "OBSERVE", observation |-> observation]

\* ErrorState keeps str(error); error_type is the class of the exception
\* it was built from
ErrorState(error_type, text) ==
    [state_type |-> "ERROR", error |-> text, error_type |-> error_type]

EndState(final_response) == [state_type |-> "END", final_response |-> final_response]

StartState(message) == [state_type |-> "START", message |-> message]

AgentLLMState == [state_type |-> "LLM"]

AgentErrorState(error_type, text) ==
    [state_type |-> "ERROR", error |-> text, error_type |-> error_type]

FSMEndState(response) == [state_type |-> "END", response |-> response]

NoValidate == [called |-> FALSE, from |-> NONE, to |-> NONE, outcome |-> NONE]

\* the add_to_memory call an execute made, if any
NoAdd == [called |-> FALSE, role |-> NONE, content |-> <<>>]

Added(role, content) == [called |-> TRUE, role |-> role, content |-> content]

NoParse == [called |-> FALSE, ok |-> FALSE, tool_name |-> <<>>, tool_args |-> <<>>]

\* what one execute did: the successor (NoState when it raised), the context
\* it leaves, the exception that escaped it, and what it called on the way
NoEffect(context) ==
    [next |-> NoState, context |-> context, exc |-> NONE,
     model_called |-> FALSE, response |-> <<>>,
     validated |-> NoValidate, parsed |-> NoParse,
     looked_up |-> FALSE, tool_called |-> FALSE, tool_raised |-> FALSE,
     added |-> NoAdd]

Validated(from, to, outcome) ==
    [called |-> TRUE, from |-> from, to |-> to, outcome |-> outcome]

\* ------------------------------------------------------------------ ReAct states

\* an End state whose execute starts the reasoning again
EndState_execute_again(self, context) ==
    [NoEffect(context) EXCEPT !.next = ThinkState(0)]

\* EndState.execute (both agents): returns self
EndState_execute(self, context) == [NoEffect(context) EXCEPT !.next = self]

\* an Error state that goes back to Think without telling the model
ErrorState_execute_silent(self, context) ==
    [NoEffect(context) EXCEPT !.next = ThinkState(0)]

\* ErrorState.execute
ErrorState_execute(self, context) ==
    [NoEffect(context) EXCEPT
        !.context = add_to_memory(context, "assistant", <<"ERROR:", WS>> \o self.error),
        !.added = Added("assistant", <<"ERROR:", WS>> \o self.error),
        !.next = ThinkState(0)]

\* the guard written with > : one more model call before giving up
RetryExhausted_gt(self, context) == self.retry_count > context.max_retries

\* the guard at the top of ThinkState.execute
RetryExhausted(self, context) == self.retry_count >= context.max_retries

\* the if/elif chain of ThinkState.execute on response.strip()
Classify(response) ==
    LET r == strip(response)
    IN  IF startswith(r, "Think:") THEN "THINK"
        ELSE IF startswith(r, "Act:") THEN "ACT"
        ELSE IF startswith(r, "End:") THEN "END"
        ELSE "ERROR"

\* a Think that hands over to Act without storing the response
ThinkState_execute_act_unrecorded(self, context, response) ==
    IF RetryExhausted(self, context)
    THEN [NoEffect(context) EXCEPT !.exc = "MaxRetryError"]
    ELSE
      LET gen == [NoEffect(generate(context)) EXCEPT
                    !.model_called = TRUE, !.response = response]
          to == Classify(response)
          v == validate_step(context.valid_steps, self.state_type, to)
          vc == validated_context(generate(context), self.state_type, to)
          g == [gen EXCEPT !.context = vc, !.validated = Validated(self.state_type, to, v)]
          a == Added("assistant", response)
          added == add_to_memory(vc, "assistant", response)
      IN  IF ~(ModelCounters \subseteq context.model) THEN [gen EXCEPT !.exc = "AttributeError"]
          ELSE IF Raises(v) THEN [g EXCEPT !.exc = v]
          ELSE CASE to = "THINK" ->
                      [g EXCEPT !.context = added, !.added = a,
                                !.next = ThinkState(self.retry_count + 1)]
                 [] to = "ACT" -> [g EXCEPT !.next = ActState]
                 [] to = "END" ->
                      [g EXCEPT !.context = added, !.added = a, !.next = EndState(response)]
                 [] OTHER ->
                      [g EXCEPT !.next = ErrorState("Exception", <<"Expected">> \o response)]

\* ThinkState.execute
ThinkState_execute(self, context, response) ==
    IF RetryExhausted(self, context)
    THEN [NoEffect(context) EXCEPT !.exc = "MaxRetryError"]
    ELSE
      LET gen == [NoEffect(generate(context)) EXCEPT
                    !.model_called = TRUE, !.response = response]
          to == Classify(response)
          v == validate_step(context.valid_steps, self.state_type, to)
          vc == validated_context(generate(context), self.state_type, to)
          g == [gen EXCEPT !.context = vc, !.validated = Validated(self.state_type, to, v)]
          a == Added("assistant", response)
          added == add_to_memory(vc, "assistant", response)
      IN  IF ~(ModelCounters \subseteq context.model) THEN [gen EXCEPT !.exc = "AttributeError"]
          ELSE IF Raises(v) THEN [g EXCEPT !.exc = v]
          ELSE CASE to = "THINK" ->
                      [g EXCEPT !.context = added, !.added = a,
                                !.next = ThinkState(self.retry_count + 1)]
                 [] to = "ACT" -> [g EXCEPT !.context = added, !.added = a, !.next = ActState]
                 [] to = "END" ->
                      [g EXCEPT !.context = added, !.added = a, !.next = EndState(response)]
                 [] OTHER ->
                      [g EXCEPT !.next = ErrorState("Exception", <<"Expected">> \o response)]

\* ActState._extract
extract(content, stop_word) ==
    LET act_content == IF stop_word # NONE
                       THEN ReplaceAct(SplitFirst(content, stop_word))
                       ELSE ReplaceAct(content)
        tool_name == SplitFirst(SplitLast(act_content, "<tool>"), "</tool>")
        ev == Eval(SplitFirst(SplitLast(act_content, "<args>"), "</args>"))
    IN  [called |-> TRUE, ok |-> ev.ok, tool_name |-> tool_name, tool_args |-> ev.value,
         act_content |-> act_content]

\* ActState.execute
ActState_execute(self, context, tool_raises) ==
    LET memory_content == Last(context.memory).content
        p == extract(memory_content, context.stop_word)
        e0 == [NoEffect(context) EXCEPT
                 !.parsed = [called |-> TRUE, ok |-> p.ok,
                             tool_name |-> p.tool_name, tool_args |-> p.tool_args]]
        e1 == [e0 EXCEPT !.looked_up = TRUE]
        result == Tool_execute(tool_raises).result
        v == validate_step(context.valid_steps, self.state_type, "OBSERVE")
    IN  IF ~p.ok
        THEN [e0 EXCEPT !.next = ErrorState("ParsingToolError",
                                            <<"ParsingToolError">> \o p.act_content)]
        ELSE IF p.tool_name \notin context.tools
        THEN [e1 EXCEPT !.next = ErrorState("ToolNotFoundError", <<"ToolNotFound">>)]
        ELSE IF ~IsMapping(p.tool_args)
        THEN [e1 EXCEPT !.next = ErrorState("ToolExecutionError",
                                            <<"ToolExecutionFailed:", WS, "TypeError">>)]
        ELSE
          LET e2 == [e1 EXCEPT !.tool_called = TRUE, !.tool_raised = tool_raises,
                               !.context = validated_context(context, self.state_type, "OBSERVE"),
                               !.validated = Validated(self.state_type, "OBSERVE", v)]
          IN  IF Raises(v) THEN [e2 EXCEPT !.exc = v]
              ELSE [e2 EXCEPT !.next = ObserveState(result)]

\* an Observe that hands the retry counter on instead of resetting it
ObserveState_execute_counted(self, context) ==
    LET added == add_to_memory(context, "assistant", <<"Observe:", WS, self.observation>>)
        v == validate_step(added.valid_steps, self.state_type, "THINK")
        e == [NoEffect(added) EXCEPT
                !.added = Added("assistant", <<"Observe:", WS, self.observation>>),
                !.validated = Validated(self.state_type, "THINK", v)]
    IN  IF Raises(v) THEN [e EXCEPT !.next = ErrorState(v, <<v>>)]
        ELSE [e EXCEPT !.next = ThinkState(1)]

\* ObserveState.execute: whatever the try block raises becomes an ErrorState
ObserveState_execute(self, context) ==
    LET added == add_to_memory(context, "assistant", <<"Observe:", WS, self.observation>>)
        v == validate_step(added.valid_steps, self.state_type, "THINK")
        e == [NoEffect(validated_context(added, self.state_type, "THINK")) EXCEPT
                !.added = Added("assistant", <<"Observe:", WS, self.observation>>),
                !.validated = Validated(self.state_type, "THINK", v)]
    IN  IF Raises(v) THEN [e EXCEPT !.next = ErrorState(v, <<v>>)]
        ELSE [e EXCEPT !.next = ThinkState(0)]

\* state.execute(self.context) of the ReActAgent loop
ReActExecute(self, context, response, tool_raises) ==
    CASE self.state_type = "THINK" -> ThinkState_execute(self, context, response)
      [] self.state_type = "ACT" -> ActState_execute(self, context, tool_raises)
      [] self.state_type = "OBSERVE" -> ObserveState_execute(self, context)
      [] self.state_type = "ERROR" -> ErrorState_execute(self, context)
      [] self.state_type = "END" -> EndState_execute(self, context)

\* ------------------------------------------------------------------ Agent states

\* AgentStartState.execute
AgentStartState_execute(self, context) ==
    [NoEffect(context) EXCEPT
        !.context = add_to_memory(context, "user", self.message),
        !.added = Added("user", self.message),
        !.next = AgentLLMState]

\* AgentLLMState._parse_response with end_tag = None
parse_response(response) ==
    LET state_response == strip(response)
        tool_name == SplitFirst(SplitLast(state_response, "<tool>"), "</tool>")
        ev == Eval(SplitFirst(SplitLast(state_response, "<args>"), "</args>"))
    IN  [called |-> TRUE, ok |-> ev.ok, tool_name |-> tool_name, tool_args |-> ev.value]

\* no sentinel: "None" is looked up like any other name
IsNoTool_never(tool_name) == FALSE

\* `if tool_name == "None"` of AgentLLMState.execute
IsNoTool(tool_name) == tool_name = <<"None">>

\* AgentLLMState.execute
AgentLLMState_execute(self, context, response, tool_raises) ==
    LET gen == [NoEffect(generate(context)) EXCEPT
                  !.model_called = TRUE, !.response = response]
        added == add_to_memory(generate(context), "assistant", response)
        p == parse_response(response)
        e0 == [gen EXCEPT !.context = added, !.added = Added("assistant", response),
                          !.parsed = p]
        e1 == [e0 EXCEPT !.looked_up = TRUE]
        result == Tool_execute(tool_raises).result
        v == validate_step_fsm(context.valid_steps, self.state_type, "END")
    IN  IF "inference_time" \notin context.model THEN [gen EXCEPT !.exc = "AttributeError"]
        ELSE IF ~p.ok
        THEN [e0 EXCEPT !.next = AgentErrorState("ParsingToolError",
                                                 <<"ParsingToolError">> \o response)]
        ELSE IF IsNoTool(p.tool_name) THEN [e0 EXCEPT !.next = FSMEndState(response)]
        ELSE IF p.tool_name \notin context.tools
        THEN [e1 EXCEPT !.next = AgentErrorState("ToolNotFoundError",
                                  <<"ToolNotFound">> \o p.tool_name \o <<"add">>)]
        ELSE IF ~IsMapping(p.tool_args)
        THEN [e1 EXCEPT !.next = AgentErrorState("ToolExecutionError",
                                  <<"ToolExecutionFailed">> \o p.tool_name
                                     \o p.tool_args \o <<"TypeError">>)]
        ELSE
          LET e2 == [e1 EXCEPT !.tool_called = TRUE, !.tool_raised = tool_raises,
                               !.context = validated_context(added, self.state_type, "END"),
                               !.validated = Validated(self.state_type, "END", v)]
          IN  IF Raises(v) THEN [e2 EXCEPT !.exc = v]
              ELSE [e2 EXCEPT !.next = FSMEndState(<<result>>)]

\* AgentErrorState.execute
AgentErrorState_execute(self, context) ==
    [NoEffect(context) EXCEPT
        !.context = add_to_memory(context, "assistant", <<"Error:", WS>> \o self.error),
        !.added = Added("assistant", <<"Error:", WS>> \o self.error),
        !.next = AgentLLMState]

\* self.states[-1].execute(self.context) of the FSMAgent loop
FSMExecute(self, context, response, tool_raises) ==
    CASE self.state_type = "START" -> AgentStartState_execute(self, context)
      [] self.state_type = "LLM" -> AgentLLMState_execute(self, context, response, tool_raises)
      [] self.state_type = "ERROR" -> AgentErrorState_execute(self, context)
      [] self.state_type = "END" -> EndState_execute(self, context)

\* ------------------------------------------------------------------ state

VARIABLES
    agent,        \* the class of the agent object: "ReActAgent" or "Agent"
    max_iters,    \* self.max_iters
    context,      \* self.context: memory, model, tools, stop_word, max_retries, valid_steps
    step_iter,    \* context.step_iter (ReActAgent), the local step_iter (FSMAgent)
    state,        \* the local `state` of ReActAgent.__call__
    agent_steps,  \* ReActAgent.agent_steps
    states,       \* FSMAgent.states
    pc,           \* "idle" (constructed), "loop", "done" (returned), "raised"
    raised,       \* the exception that left __call__, NONE when none did
    printed,      \* the [ERROR] notices printed so far
    calls,        \* invocations of the agent object so far
    executions,   \* execute calls made by the current invocation
    total,        \* execute calls made over the life of the agent object
    answers,      \* what the model answered during the current invocation, in order
    last          \* what the latest step of the driver did

vars == <<agent, max_iters, context, step_iter, state, agent_steps, states,
          pc, raised, printed, calls, executions, total, answers, last>>

\* the part of the state a driver step changes
Cur ==
    [context |-> context, step_iter |-> step_iter, state |-> state,
     agent_steps |-> agent_steps, states |-> states, pc |-> pc, raised |-> raised,
     printed |-> printed, calls |-> calls, executions |-> executions,
     total |-> total, answers |-> answers, last |-> last]

Assign(n) ==
    /\ context' = n.context
    /\ step_iter' = n.step_iter
    /\ state' = n.state
    /\ agent_steps' = n.agent_steps
    /\ states' = n.states
    /\ pc' = n.pc
    /\ raised' = n.raised
    /\ printed' = n.printed
    /\ calls' = n.calls
    /\ executions' = n.executions
    /\ total' = n.total
    /\ answers' = n.answers
    /\ last' = n.last
    /\ UNCHANGED <<agent, max_iters>>

\* the record of a driver step: the operation, the state it executed, the
\* effect of the execute, and memory and history as they were before it
Did(op, self, effect, c) ==
    [op |-> op, self |-> self, exc |-> effect.exc, next |-> effect.next,
     model_called |-> effect.model_called, response |-> effect.response,
     validated |-> effect.validated, parsed |-> effect.parsed,
     looked_up |-> effect.looked_up, tool_called |-> effect.tool_called,
     tool_raised |-> effect.tool_raised, added |-> effect.added,
     memory_before |-> c.context.memory,
     steps_before |-> c.agent_steps, states_before |-> c.states]

NewContext(model, stop_word, max_retries, valid_steps) ==
    [memory |-> <<[role |-> "system", content |-> SystemPrompt]>>,
     model |-> model, tools |-> Tools, stop_word |-> stop_word,
     max_retries |-> max_retries, valid_steps |-> valid_steps]

\* ReActAgent.__init__ and FSMAgent.__init__ (through Agent.__init__)
Init ==
    /\ agent \in {"ReActAgent", "Agent"}
    /\ max_iters \in 1..MaxItersBound
    /\ \E model \in Models, stop_word \in {NONE, "PAUSE"},
          max_retries \in 0..MaxRetriesBound,
          valid_steps \in ReActTables \cup AgentTables :
            /\ valid_steps \in IF agent = "ReActAgent" THEN ReActTables ELSE AgentTables
            /\ context = NewContext(model, stop_word, max_retries, valid_steps)
    /\ step_iter = 0
    /\ state = NoState
    /\ agent_steps = <<>>
    /\ states = <<>>
    /\ pc = "idle"
    /\ raised = NONE
    /\ printed = {}
    /\ calls = 0
    /\ executions = 0
    /\ total = 0
    /\ answers = <<>>
    /\ last = Did("init", NoState, NoEffect(context),
                  [context |-> context, agent_steps |-> <<>>, states |-> <<>>])

\* ------------------------------------------------------------------ ReActAgent

\* ReActAgent.__call__ up to the loop: the user message goes to memory, the
\* first state is Think
ReActAgent_call(c, message) ==
    LET added == add_to_memory(c.context, "user", message)
    IN  [c EXCEPT !.context = added, !.state = ThinkState(0), !.pc = "loop",
                  !.raised = NONE, !.calls = @ + 1, !.executions = 0,
                  !.answers = <<>>,
                  !.last = Did("call", NoState,
                               [NoEffect(added) EXCEPT !.added = Added("user", message)], c)]

\* one pass of the while loop of ReActAgent.__call__
ReActAgent_loop(c, response, tool_raises) ==
    LET n == c.step_iter + 1
        e == ReActExecute(c.state, c.context, response, tool_raises)
        d == Did(c.state.state_type, c.state, e, c)
    IN  IF e.exc # NONE
        THEN [c EXCEPT !.context = e.context, !.step_iter = n, !.pc = "raised",
                       !.raised = e.exc, !.executions = @ + 1, !.total = @ + 1,
                       !.answers = IF e.model_called THEN Append(@, e.response) ELSE @,
                       !.last = d]
        ELSE [c EXCEPT !.context = e.context, !.step_iter = n, !.state = e.next,
                       !.agent_steps = Append(@, [from_state |-> c.state.state_type,
                                                  to_state |-> e.next.state_type]),
                       !.printed = IF n = max_iters /\ e.next.state_type # "END"
                                   THEN @ \cup {"max_iters"} ELSE @,
                       !.pc = IF e.next.state_type = "END" THEN "done" ELSE "loop",
                       !.executions = @ + 1, !.total = @ + 1,
                       !.answers = IF e.model_called THEN Append(@, e.response) ELSE @,
                       !.last = d]

ReActCall ==
    /\ agent = "ReActAgent"
    /\ pc # "loop"
    /\ calls < MaxCalls
    /\ \E message \in Messages :
          \E n \in {ReActAgent_call(Cur, message)} : Assign(n)

ReActIterate ==
    /\ agent = "ReActAgent"
    /\ pc = "loop"
    /\ total < MaxExec
    /\ \E response \in ReActResponses, tool_raises \in BOOLEAN :
          \E n \in {ReActAgent_loop(Cur, response, tool_raises)} : Assign(n)

\* ------------------------------------------------------------------ FSMAgent

\* FSMAgent.__call__ up to the loop: the start state is recorded
FSMAgent_call(c, message) ==
    [c EXCEPT !.states = Append(@, StartState(message)), !.step_iter = 0,
              !.pc = "loop", !.raised = NONE, !.calls = @ + 1, !.executions = 0,
              !.answers = <<>>,
              !.last = Did("call", NoState, NoEffect(c.context), c)]

\* a loop that looks at the ceiling one pass too late
FSMAgent_loop_late(c, response, tool_raises) ==
    LET self == Last(c.states)
        e == FSMExecute(self, c.context, response, tool_raises)
        d == Did(self.state_type, self, e, c)
    IN  IF c.step_iter = max_iters + 1
        THEN [c EXCEPT !.printed = @ \cup {"max_iters"}, !.pc = "done",
                       !.last = Did("ceiling", self, NoEffect(c.context), c)]
        ELSE IF e.exc = "MaxRetryError"
        THEN [c EXCEPT !.context = e.context, !.printed = @ \cup {"max_retries"},
                       !.pc = "done", !.executions = @ + 1, !.total = @ + 1,
                       !.answers = IF e.model_called THEN Append(@, e.response) ELSE @,
                       !.last = d]
        ELSE IF e.exc # NONE
        THEN [c EXCEPT !.context = e.context, !.pc = "raised", !.raised = e.exc,
                       !.executions = @ + 1, !.total = @ + 1,
                       !.answers = IF e.model_called THEN Append(@, e.response) ELSE @,
                       !.last = d]
        ELSE [c EXCEPT !.context = e.context, !.states = Append(@, e.next),
                       !.step_iter = @ + 1,
                       !.pc = IF e.next.state_type = "END" THEN "done" ELSE "loop",
                       !.executions = @ + 1, !.total = @ + 1,
                       !.answers = IF e.model_called THEN Append(@, e.response) ELSE @,
                       !.last = d]

\* one pass of the while loop of FSMAgent.__call__
FSMAgent_loop(c, response, tool_raises) ==
    LET self == Last(c.states)
        e == FSMExecute(self, c.context, response, tool_raises)
        d == Did(self.state_type, self, e, c)
    IN  IF c.step_iter = max_iters
        THEN [c EXCEPT !.printed = @ \cup {"max_iters"}, !.pc = "done",
                       !.last = Did("ceiling", self, NoEffect(c.context), c)]
        ELSE IF e.exc = "MaxRetryError"
        THEN [c EXCEPT !.context = e.context, !.printed = @ \cup {"max_retries"},
                       !.pc = "done", !.executions = @ + 1, !.total = @ + 1,
                       !.answers = IF e.model_called THEN Append(@, e.response) ELSE @,
                       !.last = d]
        ELSE IF e.exc # NONE
        THEN [c EXCEPT !.context = e.context, !.pc = "raised", !.raised = e.exc,
                       !.executions = @ + 1, !.total = @ + 1,
                       !.answers = IF e.model_called THEN Append(@, e.response) ELSE @,
                       !.last = d]
        ELSE [c EXCEPT !.context = e.context, !.states = Append(@, e.next),
                       !.step_iter = @ + 1,
                       !.pc = IF e.next.state_type = "END" THEN "done" ELSE "loop",
                       !.executions = @ + 1, !.total = @ + 1,
                       !.answers = IF e.model_called THEN Append(@, e.response) ELSE @,
                       !.last = d]

FSMCall ==
    /\ agent = "Agent"
    /\ pc # "loop"
    /\ calls < MaxCalls
    /\ \E message \in Messages :
          \E n \in {FSMAgent_call(Cur, message)} : Assign(n)

FSMIterate ==
    /\ agent = "Agent"
    /\ pc = "loop"
    /\ total < MaxExec
    /\ \E response \in AgentResponses, tool_raises \in BOOLEAN :
          \E n \in {FSMAgent_loop(Cur, response, tool_raises)} : Assign(n)

Next == ReActCall \/ ReActIterate \/ FSMCall \/ FSMIterate

Spec == Init /\ [][Next]_vars

\* ------------------------------------------------------------------ finite abstraction

\* the first entry and the latest Window entries of a sequence
Recent(s) ==
    IF Len(s) <= Window + 1 THEN s
    ELSE <<s[1]>> \o SubSeq(s, Len(s) - Window + 1, Len(s))

Saturate(n, cap) == IF n > cap THEN cap ELSE n

\* step_iter is only compared with max_iters: past it, the count is kept
\* within max_iters + 1 .. max_iters + 2, so that it still changes
Wrap(n) == IF n > max_iters + 2 THEN max_iters + 1 ELSE n

\* The loop of ReActAgent.__call__ reads the kind and the retry counter of the
\* current state, the latest memory entry, and whether step_iter equals
\* max_iters.  Abstract keeps those and forgets older memory and history and
\* counts beyond the values compared, so that a run that never ends is a cycle.
Abstract(n) ==
    [n EXCEPT !.context.memory = Recent(@),
              !.agent_steps = Recent(@),
              !.step_iter = Wrap(@),
              !.executions = Saturate(@, max_iters + 1),
              !.total = Saturate(@, max_iters + 1),
              !.answers = <<>>,
              !.last.memory_before = Recent(@),
              !.last.steps_before = Recent(@)]

LiveInit == Init /\ agent = "ReActAgent"

LiveCall ==
    /\ pc # "loop"
    /\ calls < MaxCalls
    /\ \E message \in Messages :
          \E n \in {Abstract(ReActAgent_call(Cur, message))} : Assign(n)

LiveIterate ==
    /\ pc = "loop"
    /\ \E response \in ReActResponses, tool_raises \in BOOLEAN :
          \E n \in {Abstract(ReActAgent_loop(Cur, response, tool_raises))} : Assign(n)

LiveNext == LiveCall \/ LiveIterate

\* a pass of the while loop, seen by its first statement, step_iter += 1:
\* the steps of LiveIterate are the steps of Pass, and both are enabled
\* exactly while the loop is running
Pass == pc = "loop" /\ step_iter' = Wrap(step_iter + 1)

\* the loop runs on as long as it can: nothing but its own exit stops it
LiveSpec == LiveInit /\ [][LiveNext]_vars /\ WF_step_iter(Pass)

\* ------------------------------------------------------------------ claims

\* validate_step succeeded because the table permits the step
Permitted(valid_steps, from, to) ==
    /\ valid_steps.configured
    /\ from \in DOMAIN valid_steps.table
    /\ to \in valid_steps.table[from]

\* C1: with a configured transition table, validate_step(from, to) returns
\* true if and only if `to` is in the table's permitted set for `from`.
C1_ValidateTrueIffPermitted ==
    (last.validated.called /\ context.valid_steps.configured) =>
        (last.validated.outcome = "True"
            <=> Permitted(context.valid_steps, last.validated.from, last.validated.to))

\* C2: in the multi-step driver a run performs at most max_iters state
\* executions: no state is executed once the counter has reached max_iters.
C2_AtMostMaxItersExecutions ==
    agent = "ReActAgent" => executions <= max_iters

\* C3: every run of the multi-step driver eventually terminates, whatever the
\* model and the tools answer.
C3_EveryRunTerminates == (pc = "loop") ~> (pc # "loop")

\* C4: under DEFAULT_REACT_VALID_STEPS every recorded Agent Step has its
\* to-kind in the table's permitted set for its from-kind.
C4_HistoryWithinTable ==
    (agent = "ReActAgent" /\ context.valid_steps = DEFAULT_REACT_VALID_STEPS) =>
        \A i \in 1..Len(agent_steps) :
            agent_steps[i].to_state
                \in DEFAULT_REACT_VALID_STEPS.table[agent_steps[i].from_state]

\* C5: a Think state whose retry counter is at least max_retries fails with
\* MaxRetryError before the model is called: no model call, memory unchanged.
C5_RetryExhaustedBeforeModel ==
    (last.op = "THINK" /\ last.self.retry_count >= context.max_retries) =>
        /\ last.exc = "MaxRetryError"
        /\ ~last.model_called
        /\ context.memory = last.memory_before

\* C5 witness: a Think state that used up a positive retry budget was executed
C5_Witness ==
    /\ last.op = "THINK"
    /\ context.max_retries > 0
    /\ last.self.retry_count = context.max_retries
    /\ last.exc = "MaxRetryError"

\* C6: when an execute fails with MaxRetryError the driver stops as a normal
\* termination: no exception reaches the caller, the run ends in a non-End
\* state and the history is as it was.
C6_RetryExhaustedStopsNormally ==
    last.exc = "MaxRetryError" =>
        /\ pc = "done"
        /\ raised = NONE
        /\ agent_steps = last.steps_before
        /\ states = last.states_before

\* C7: when the tool function raises during the invocation, the next state is
\* an Error state carrying ToolExecutionError, never Observe or End.
C7_ToolFailureYieldsError ==
    last.tool_raised =>
        /\ last.next.state_type = "ERROR"
        /\ last.next.error_type = "ToolExecutionError"

C9_InvalidTransitionAborts ==
    last.validated.outcome = "StateStepError" =>
        /\ last.next.state_type # "ERROR"
        /\ state.state_type # "ERROR"
        /\ pc = "raised"
        /\ agent_steps = last.steps_before

NoToolParsed ==
    /\ last.parsed.called
    /\ last.parsed.ok
    /\ last.parsed.tool_name = <<"None">>

Mentions(t, name) == \A i \in 1..Len(name) : \E j \in 1..Len(t) : t[j] = name[i]

\* C11: when the parsed tool name is not a key of the registry, the next state
\* is an Error state carrying ToolNotFoundError, no tool is invoked, and the
\* error text kept for the model lists every registered tool name.
C11_ToolNotFoundListsTools ==
    (last.parsed.called /\ last.parsed.ok /\ last.looked_up
        /\ last.parsed.tool_name \notin context.tools) =>
        /\ last.next.state_type = "ERROR"
        /\ last.next.error_type = "ToolNotFoundError"
        /\ ~last.tool_called
        /\ \A name \in context.tools : Mentions(last.next.error, name)

\* C12: when the args segment of a response decodes to anything that is not a
\* literal mapping, the parser fails, the next state is an Error state
\* carrying ParsingToolError, and no tool is looked up or invoked.
C12_NonMappingArgsRejected ==
    (last.parsed.called /\ ~IsMapping(last.parsed.tool_args)) =>
        /\ ~last.parsed.ok
        /\ last.next.state_type = "ERROR"
        /\ last.next.error_type = "ParsingToolError"
        /\ ~last.looked_up
        /\ ~last.tool_called

\* the text the parser of the latest step was given: the latest memory entry
\* in ActState.execute, the model response in AgentLLMState.execute
ParsedText ==
    IF agent = "ReActAgent" THEN Last(last.memory_before).content ELSE last.response

\* tool names and literal mappings a well-formed call is written with
CallNames == {<<"add">>, <<"sub">>, <<"None">>}

CallMappings == {<<"{}">>, <<"{'a':2,'b':3}">>, ActNote}

\* text is <tool>name</tool> <args>mapping</args>, possibly after blanks and
\* the label of the Act state, possibly followed by blanks and the stop sentinel
IsCall(text, name, mapping) ==
    \E pre \in {<<>>, <<WS>>}, label \in {<<>>, <<"Act:", WS>>},
       post \in {<<>>, <<WS>>, <<WS, "PAUSE">>, <<WS, "PAUSE", WS>>} :
        text = pre \o label \o RCallSeq(name, mapping) \o post

\* C13: a response <tool>NAME</tool> <args>{LITERAL-MAPPING}</args> always
\* parses to exactly the name NAME and exactly that mapping, with or without
\* blanks around it and with or without the stop sentinel after it.
C13_WellFormedCallParsesExactly ==
    \A name \in CallNames, mapping \in CallMappings :
        (last.parsed.called /\ IsCall(ParsedText, name, mapping)) =>
            /\ last.parsed.ok
            /\ last.parsed.tool_name = name
            /\ last.parsed.tool_args = mapping

\* s is the beginning of t
IsPrefix(s, t) == Len(s) <= Len(t) /\ SubSeq(t, 1, Len(s)) = s

\* C14: in every reachable state of both drivers the first memory entry is
\* the system prompt with role system, and memory is append-only: the memory
\* an operation found is an unchanged prefix of the memory it leaves.
C14_SystemFirstAppendOnly ==
    /\ context.memory # <<>>
    /\ context.memory[1] = [role |-> "system", content |-> SystemPrompt]
    /\ IsPrefix(last.memory_before, context.memory)

\* the memory that add_to_memory was called on: generate may have trimmed
\* the entries the step found
MemoryAtAdd ==
    IF last.model_called THEN generate([context EXCEPT !.memory = last.memory_before]).memory
    ELSE last.memory_before

\* C15: add_to_memory grows memory by exactly one entry and leaves the older
\* entries as they are; with a stop word configured the stored content ends
\* with the stop word, appended when the input did not end with it and not
\* appended again when it did; the stored content has no blank at either end.
C15_AddToMemoryAppendsOne ==
    last.added.called =>
        LET stored == Last(context.memory).content
            input == last.added.content
        IN  /\ Len(context.memory) = Len(MemoryAtAdd) + 1
            /\ SubSeq(context.memory, 1, Len(MemoryAtAdd)) = MemoryAtAdd
            /\ Last(context.memory).role = last.added.role
            /\ stored = strip(stored)
            /\ context.stop_word = NONE => stored = strip(input)
            /\ context.stop_word # NONE =>
                /\ endswith(stored, context.stop_word)
                /\ IF endswith(strip(input), context.stop_word)
                   THEN stored = strip(input)
                   ELSE stored = lstrip(input) \o <<WS, context.stop_word>>

\* C15 witness: with the stop word configured, add_to_memory was given a
\* content that has blanks around it and already ends with the stop word
C15_Witness ==
    /\ last.added.called
    /\ context.stop_word = "PAUSE"
    /\ Head(last.added.content) = WS
    /\ Last(last.added.content) = WS
    /\ endswith(strip(last.added.content), "PAUSE")
    /\ Len(context.memory) = Len(last.memory_before) + 1

\* scenario A: the model answers a tool call on add, then "End: 5"
ScriptA == <<ScenarioCall, <<"End:", WS, "5">>>>

\* the kind of the reasoning state of the agent
Reasoning == IF agent = "ReActAgent" THEN "THINK" ELSE "LLM"

\* the kinds the run went through: the recorded steps of the ReActAgent, the
\* consecutive pairs of the states list of the FSMAgent
Transitions ==
    IF agent = "ReActAgent" THEN agent_steps
    ELSE [i \in 1..(Len(states) - 1) |->
            [from_state |-> states[i].state_type, to_state |-> states[i + 1].state_type]]

Step(from, to) == [from_state |-> from, to_state |-> to]

\* the state the driver holds: the local `state`, the last of self.states
Current == IF agent = "ReActAgent" THEN state ELSE Last(states)

\* the answer an End state carries
FinalAnswer == IF agent = "ReActAgent" THEN state.final_response ELSE Last(states).response

\* the agent is built with its default table and is in its first invocation
DefaultRun ==
    /\ calls = 1
    /\ context.valid_steps =
          IF agent = "ReActAgent" THEN DEFAULT_REACT_VALID_STEPS ELSE AGENT_VALID_STEPS

\* C16: scenario A.  With the tool add, the message "add 2 and 3" and a model
\* that answers the tool call and then "End: 5", no Error state is visited
\* and no exception is raised on the way; the run ends when the second answer
\* has been read, in an End state with final answer "5", after the
\* transitions Start->Reasoning, Reasoning->Act, Act->Observe,
\* Observe->Reasoning, Reasoning->End.
C16_ScenarioA ==
    (DefaultRun /\ answers # <<>> /\ IsPrefix(answers, ScriptA)) =>
        /\ raised = NONE
        /\ \A i \in 1..Len(Transitions) : Transitions[i].to_state # "ERROR"
        /\ answers = ScriptA => pc = "done"
        /\ pc = "done" =>
            /\ Current.state_type = "END"
            /\ FinalAnswer = <<"5">>
            /\ Transitions = << Step("START", Reasoning), Step(Reasoning, "ACT"),
                                Step("ACT", "OBSERVE"), Step("OBSERVE", Reasoning),
                                Step(Reasoning, "END") >>

\* answers that try to call a tool but are not written as the protocol asks:
\* an args segment that is no literal, a missing closing tag
MalformedCalls ==
    { RAct("add", "oops"), RCall("add", "oops"), <<"Act:", WS>> \o Unclosed, Unclosed }

\* answers a model that has corrected itself gives: a call of add as the
\* agent expects it, or the final answer
CorrectAnswers ==
    IF agent = "ReActAgent"
    THEN { RAct("add", "{'a':2,'b':3}"), <<"End:", WS, "5">> }
    ELSE { RCall("add", "{'a':2,'b':3}"), ScenarioCall }

\* scenario B: the answers of the run so far are one malformed tool call and
\* correct answers after it
ScenarioB ==
    /\ DefaultRun
    /\ answers # <<>>
    /\ answers[1] \in MalformedCalls
    /\ \A i \in 2..Len(answers) : answers[i] \in CorrectAnswers

ErrorVisits == Cardinality({i \in 1..Len(Transitions) : Transitions[i].to_state = "ERROR"})

\* C17: scenario B.  When the model gives one malformed tool call and correct
\* answers afterwards, no exception leaves the run, the Error state is
\* visited at most once on the way and exactly once when the run has ended,
\* the reasoning state entered after the Error state is a fresh one (retry
\* counter 0), and a run that is not cut by the iteration ceiling ends in an
\* End state.
C17_ScenarioB ==
    ScenarioB =>
        /\ raised = NONE
        /\ ErrorVisits <= 1
        /\ last.op = "ERROR" =>
              last.next = (IF agent = "ReActAgent" THEN ThinkState(0) ELSE AgentLLMState)
        /\ (pc = "done" /\ last.op # "ceiling") =>
              Current.state_type = "END" /\ ErrorVisits = 1

\* scenario C: the iteration ceiling is below max_retries and the model has
\* answered "Think: ..." every time
ScenarioC ==
    /\ agent = "ReActAgent"
    /\ calls = 1
    /\ max_iters < context.max_retries
    /\ \A i \in 1..Len(answers) : answers[i] = <<"Think:", WS, "hm">>

\* C18: scenario C.  The multi-step run makes no more than max_iters state
\* executions and history records, raises nothing, and once max_iters
\* executions are made it has ended, in a state that is not an End state and
\* with exactly max_iters history records.
C18_ScenarioC ==
    ScenarioC =>
        /\ raised = NONE
        /\ executions <= max_iters
        /\ Len(agent_steps) <= max_iters
        /\ executions = max_iters =>
            /\ pc = "done"
            /\ state.state_type # "END"
            /\ Len(agent_steps) = max_iters

\* C19: each invocation runs on its own context: when the second or a later
\* invocation of the same agent object starts, memory holds the system prompt
\* (and, in the multi-step agent, the user message the driver has just
\* appended), the iteration counter is 0 and the history holds nothing of an
\* earlier run (in the single-state agent, only the new Start state).
C19_FreshContextPerCall ==
    (last.op = "call" /\ calls >= 2) =>
        /\ Len(context.memory) = (IF agent = "ReActAgent" THEN 2 ELSE 1)
        /\ context.memory[1].role = "system"
        /\ step_iter = 0
        /\ agent_steps = <<>>
        /\ Len(states) = (IF agent = "ReActAgent" THEN 0 ELSE 1)

\* C20: with a table configured, the empty table included, validate_step
\* with a `from` that is not a key of the table fails with StateStepError
\* and never returns true; it returns true without looking at the kinds only
\* when no table is configured.
C20_AbsentFromAlwaysFails ==
    last.validated.called =>
        /\ (context.valid_steps.configured
              /\ last.validated.from \notin DOMAIN context.valid_steps.table)
            => last.validated.outcome = "StateStepError"
        /\ last.validated.outcome = "True" => ~context.valid_steps.configured

\* C21: the Think state gives a response in the tag-wrapper style the same
\* classification as the same response in the label-prefix style, and never
\* classifies it as unrecognized.
C21_TagStyleClassifiedAsLabelStyle ==
    \A kind \in {"Think", "Act", "End"}, body \in {<<"hm">>, <<"5">>} :
        (last.op = "THINK" /\ last.validated.called
            /\ last.response = TagStyle(kind, body)) =>
            /\ last.validated.to = Classify(LabelStyle(kind, body))
            /\ last.validated.to # "ERROR"
            /\ last.next.state_type # "ERROR"

AtEnd == (agent = "Agent" => states # <<>>) /\ Current.state_type = "END"

\* C23: End is terminal.  Executing an End state returns that state and
\* leaves the context, memory included, as it was; when the current state is
\* End the run is over, the End state is what the latest step returned, and
\* the only thing that happens next is a new invocation.
C23_EndIsTerminal ==
    /\ [](AtEnd =>
            /\ EndState_execute(Current, context).next = Current
            /\ EndState_execute(Current, context).context = context
            /\ EndState_execute(Current, context).exc = NONE
            /\ pc = "done"
            /\ last.next = Current)
    /\ [][AtEnd => (calls' = calls + 1 /\ last'.op = "call")]_vars

\* C23 witness: a run of the multi-step agent has ended in an End state after
\* a tool was used
C23_Witness ==
    /\ agent = "ReActAgent"
    /\ state.state_type = "END"
    /\ pc = "done"
    /\ Len(agent_steps) >= 4
    /\ Len(context.memory) >= 5

\* validate_step as the agent at hand calls it
ValidateOutcome(valid_steps, from, to) ==
    IF agent = "ReActAgent" THEN validate_step(valid_steps, from, to)
    ELSE validate_step_fsm(valid_steps, from, to)

C25_ThinkAppendsResponse ==
    (last.op = "THINK" /\ last.model_called /\ last.exc = NONE) =>
        /\ last.added = Added("assistant", last.response)
        /\ Len(context.memory) = Len(last.memory_before) + 1
        /\ Last(context.memory).role = "assistant"

\* the number of continue-reasoning responses at the end of a response list
RECURSIVE TrailingThink(_)
TrailingThink(responses) ==
    IF responses = <<>> THEN 0
    ELSE IF Classify(Last(responses)) # "THINK" THEN 0
    ELSE 1 + TrailingThink(SubSeq(responses, 1, Len(responses) - 1))

\* C26: in a ReActAgent run the retry counter of the current Think state is
\* the number of consecutive continue-reasoning responses since the run
\* started or since the last Observe or Error state, it lies in
\* 0..max_retries, a continue-reasoning response yields Think with the counter
\* plus one, and MaxRetryError is raised exactly by the Think state whose
\* counter has reached max_retries, so never right after an act, end or
\* unrecognized response.
C26_RetryExhaustedExactly ==
    agent = "ReActAgent" =>
        /\ (pc = "loop" /\ state.state_type = "THINK") =>
              /\ state.retry_count = TrailingThink(answers)
              /\ state.retry_count \in 0..context.max_retries
              /\ \A response \in ReActResponses :
                    ThinkState_execute(state, context, response).exc = "MaxRetryError"
                        <=> TrailingThink(answers) = context.max_retries
        /\ raised = "MaxRetryError" =>
              /\ last.op = "THINK"
              /\ ~last.model_called
              /\ last.self.retry_count = context.max_retries
              /\ TrailingThink(answers) = context.max_retries
              /\ (answers # <<>> /\ context.max_retries > 0)
                    => Classify(Last(answers)) = "THINK"
        /\ (last.op = "THINK" /\ last.exc = NONE /\ Classify(last.response) = "THINK") =>
              last.next = ThinkState(last.self.retry_count + 1)

C26_Witness ==
    /\ agent = "ReActAgent"
    /\ raised = "MaxRetryError"
    /\ context.max_retries = 1
    /\ Len(answers) = 2
    /\ Classify(answers[1]) = "ERROR"
    /\ Classify(answers[2]) = "THINK"

\* C27: validate_step with a `from` that is a key of the table and a `to`
\* outside its permitted set fails with StateStepError and with nothing else,
\* for the ReActAgent's context and for the FSM Agent's context alike.
C27_NotPermittedIsStateStepError ==
    (last.validated.called
        /\ context.valid_steps.configured
        /\ last.validated.from \in DOMAIN context.valid_steps.table
        /\ last.validated.to \notin context.valid_steps.table[last.validated.from])
    => last.validated.outcome = "StateStepError"

\* C28: a run starts in a Start state built from the caller's message: the
\* driver itself appends nothing to memory, the Start state's execute appends
\* the user message, and the first recorded transition of the first run goes
\* from START to the reasoning kind.
C28_RunStartsInStartState ==
    /\ last.op = "call" =>
          /\ Current.state_type = "START"
          /\ ~last.added.called
          /\ context.memory = last.memory_before
    /\ (last.added.called /\ last.added.role = "user") => last.op = "START"
    /\ (calls = 1 /\ Transitions # <<>>) => Transitions[1] = Step("START", Reasoning)

\* C29: an Observe execution under a table that permits OBSERVE -> THINK
\* appends exactly one entry to memory, the assistant entry add_to_memory
\* makes of "Observe: <result>", changes nothing else in memory, and returns
\* a Think state with retry counter 0 whatever the counter was before the
\* tool call.
C29_ObserveAppendsAndResets ==
    (last.op = "OBSERVE" /\ Permitted(context.valid_steps, "OBSERVE", "THINK")) =>
        /\ last.exc = NONE
        /\ last.added = Added("assistant", <<"Observe:", WS, last.self.observation>>)
        /\ Len(context.memory) = Len(last.memory_before) + 1
        /\ SubSeq(context.memory, 1, Len(last.memory_before)) = last.memory_before
        /\ Last(context.memory).role = "assistant"
        /\ startswith(Last(context.memory).content, "Observe:")
        /\ Last(context.memory).content \in
              { <<"Observe:", WS, last.self.observation>>,
                <<"Observe:", WS, last.self.observation, WS, "PAUSE">> }
        /\ last.next = ThinkState(0)
        /\ state = ThinkState(0)

C29_Witness ==
    /\ last.op = "OBSERVE"
    /\ Permitted(context.valid_steps, "OBSERVE", "THINK")
    /\ Len(answers) = 2
    /\ Classify(answers[1]) = "THINK"
    /\ Last(last.steps_before) = Step("ACT", "OBSERVE")
    /\ last.steps_before[1] = Step("THINK", "THINK")
    /\ state = ThinkState(0)

\* C30: the ReActAgent's history is an append-only chain: an execution that
\* returns a successor appends exactly one record from the executed kind to
\* the successor's kind, an execution that raises and the start of a run
\* append nothing, every record starts at the kind the record before it ends
\* at, and after every completed iteration the iteration counter equals the
\* number of records.
C30_HistoryIsChain ==
    agent = "ReActAgent" =>
        /\ last.op \notin {"init", "call"} =>
              agent_steps = IF last.exc = NONE
                            THEN Append(last.steps_before,
                                        Step(last.self.state_type, last.next.state_type))
                            ELSE last.steps_before
        /\ last.op = "call" => agent_steps = last.steps_before
        /\ \A i \in 2..Len(agent_steps) :
              agent_steps[i].from_state = agent_steps[i - 1].to_state
        /\ (last.op \notin {"init", "call"} /\ last.exc = NONE) =>
              step_iter = Len(agent_steps)

\* a label in the letter case ThinkState.execute compares with
Capitalized(label) ==
    CASE label \in {"think:", "THINK:", "Think:"} -> "Think:"
      [] label \in {"act:", "ACT:", "Act:"} -> "Act:"
      [] label \in {"end:", "END:", "End:"} -> "End:"
      [] OTHER -> label

\* the response with its leading label in that letter case
WithCapitalizedLabel(response) ==
    LET r == strip(response)
    IN  IF r = <<>> THEN r ELSE <<Capitalized(Head(r))>> \o Tail(r)

\* C31: the Think state's classification does not depend on the letter case
\* of the leading label: a response is classified as the same response with
\* its label written Think:, Act: or End:.
C31_ClassificationIgnoresCase ==
    (last.op = "THINK" /\ last.validated.called) =>
        last.validated.to = Classify(WithCapitalizedLabel(last.response))

\* ------------------------------------------------- the FSMAgent loop, fairly

FSMLiveInit == Init /\ agent = "Agent"

\* a pass of the while loop of FSMAgent.__call__, whatever was executed before
FSMLiveIterate ==
    /\ agent = "Agent"
    /\ pc = "loop"
    /\ \E response \in AgentResponses, tool_raises \in BOOLEAN :
          \E n \in {FSMAgent_loop(Cur, response, tool_raises)} : Assign(n)

FSMLiveNext == FSMCall \/ FSMLiveIterate

\* a pass seen by the loop's own bookkeeping: it leaves the loop (break, End,
\* exception) or ends with step_iter += 1
FSMPass ==
    /\ pc = "loop"
    /\ pc' \in {"loop", "done", "raised"}
    /\ step_iter' \in {step_iter, step_iter + 1}
    /\ (pc' # "loop" \/ step_iter' = step_iter + 1)

\* the loop runs on as long as it can
FSMLiveSpec == FSMLiveInit /\ [][FSMLiveNext]_vars /\ WF_<<pc, step_iter>>(FSMPass)

\* C32: a run of FSMAgent.__call__ executes at most max_iters states and
\* always terminates, whatever the model and the tools do; the iteration
\* limit is reported only when the current state is not End, so a run whose
\* max_iters-th execution returns an End state ends with End as final state.
C32_FSMRunBoundedAndTerminates ==
    /\ [](/\ executions <= max_iters
          /\ step_iter <= max_iters
          /\ last.op = "ceiling" =>
                /\ last.self.state_type # "END"
                /\ executions = max_iters
          /\ (executions = max_iters /\ last.op \notin {"init", "call", "ceiling"}
                /\ last.exc = NONE /\ last.next.state_type = "END") =>
                /\ pc = "done"
                /\ Last(states) = last.next)
    /\ [][(last.op # "ceiling" /\ last.exc = NONE /\ last.next.state_type = "END")
            => last'.op = "call"]_vars
    /\ ((pc = "loop") ~> (pc # "loop"))

C32_Witness ==
    /\ executions = max_iters
    /\ last.op = "LLM"
    /\ last.exc = NONE
    /\ last.next.state_type = "END"
    /\ Last(states).state_type = "END"
    /\ pc = "done"

\* the default table of the running agent
DefaultTable ==
    IF agent = "ReActAgent" THEN DEFAULT_REACT_VALID_STEPS ELSE AGENT_VALID_STEPS

\* the kinds of the states that have been current so far
KindsSeen ==
    IF agent = "ReActAgent"
    THEN {agent_steps[i].from_state : i \in 1..Len(agent_steps)}
            \cup {agent_steps[i].to_state : i \in 1..Len(agent_steps)}
            \cup (IF pc = "idle" THEN {} ELSE {state.state_type})
    ELSE {states[i].state_type : i \in 1..Len(states)}

\* C33: under the default table of either agent every kind of state that
\* becomes current in a run is a key of the table, and END maps to the
\* empty set.
C33_CurrentKindsAreKeys ==
    context.valid_steps = DefaultTable =>
        /\ KindsSeen \subseteq DOMAIN context.valid_steps.table
        /\ "END" \in DOMAIN context.valid_steps.table
        /\ context.valid_steps.table["END"] = {}

C33_Witness ==
    /\ agent = "ReActAgent"
    /\ context.valid_steps = DefaultTable
    /\ KindsSeen = {"THINK", "ACT", "OBSERVE", "END"}
    /\ state.state_type = "END"

\* C34: with a model that has the three counters of the Model interface, a
\* Think or LLM execution that has called the model completes its metadata
\* recording and goes on: Think validates the classified transition, LLM
\* appends the response to memory and parses it.
C34_InterfaceCountersSuffice ==
    (last.model_called /\ ModelCounters \subseteq context.model) =>
        /\ last.op = "THINK" => last.validated.called
        /\ last.op = "LLM" => (last.added.called /\ last.exc # "AttributeError")

\* C35: under AGENT_VALID_STEPS every pair of consecutive states of the
\* Agent's recorded state list is permitted by the table, and the only
\* transition validate_step is asked about is LLM -> END after a tool call.
C35_AgentStepsPermitted ==
    (agent = "Agent" /\ context.valid_steps = AGENT_VALID_STEPS) =>
        /\ \A i \in 1..Len(Transitions) :
              Permitted(context.valid_steps, Transitions[i].from_state,
                        Transitions[i].to_state)
        /\ last.validated.called =>
              /\ last.validated.from = "LLM"
              /\ last.validated.to = "END"
              /\ last.tool_called

\* the content add_to_memory stores for an assistant response
Stored(response) == Last(add_to_memory(context, "assistant", response).memory).content

\* C36: an Act state executes right after the Think execution that classified
\* a response as act, on the memory that execution left: its last entry is
\* that response as an assistant entry, never an Observe entry, an Error
\* entry or the user message.
C36_ActReadsTheActResponse ==
    /\ [](last.op = "ACT" =>
            /\ answers # <<>>
            /\ startswith(strip(Last(answers)), "Act:")
            /\ Last(last.memory_before).role = "assistant"
            /\ Last(last.memory_before).content = Stored(Last(answers))
            /\ startswith(Last(last.memory_before).content, "Act:")
            /\ Last(last.steps_before) = Step("THINK", "ACT"))
    /\ [][last'.op = "ACT" =>
            /\ last.op = "THINK"
            /\ last.next = ActState
            /\ last.added = Added("assistant", last.response)
            /\ last'.memory_before = context.memory]_vars

C36_Witness ==
    /\ last.op = "ACT"
    /\ last.tool_called
    /\ context.stop_word = "PAUSE"
    /\ Len(answers) = 2
    /\ Classify(answers[1]) = "THINK"
    /\ Last(last.memory_before).content = Stored(answers[2])

\* C37: a Think, Act or Observe execution whose validate_step fails leaves
\* memory as it found it: no entry is appended.
C37_InvalidStepLeavesMemory ==
    (last.op \in {"THINK", "ACT", "OBSERVE"} /\ last.validated.called
        /\ Raises(last.validated.outcome)) =>
        /\ ~last.added.called
        /\ context.memory = last.memory_before

\* a response AgentLLMState._parse_response rejects
Malformed(response) == ~parse_response(response).ok

\* the states the current invocation of the Agent has recorded, its Start
\* state first
RECURSIVE RunStates(_)
RunStates(recorded) ==
    IF recorded = <<>> THEN <<>>
    ELSE IF Last(recorded).state_type = "START" THEN <<Last(recorded)>>
    ELSE Append(RunStates(SubSeq(recorded, 1, Len(recorded) - 1)), Last(recorded))

\* the driver's variables with another retry ceiling in the context
WithMaxRetries(c, max_retries) == [c EXCEPT !.context.max_retries = max_retries]

\* C38: the Agent never exercises the retry ceiling: a pass of its loop does
\* the same whatever max_retries is, MaxRetryError is never raised, and a run
\* in which every response is malformed ends at the iteration ceiling after
\* exactly max_iters executions, its states alternating LLM and ERROR after
\* the Start state.
C38_AgentIgnoresMaxRetries ==
    agent = "Agent" =>
        /\ last.exc # "MaxRetryError"
        /\ "max_retries" \notin printed
        /\ pc = "loop" =>
              \A max_retries \in 0..MaxRetriesBound, response \in AgentResponses,
                 tool_raises \in BOOLEAN :
                    FSMAgent_loop(WithMaxRetries(Cur, max_retries), response, tool_raises)
                        = WithMaxRetries(FSMAgent_loop(Cur, response, tool_raises),
                                         max_retries)
        /\ (pc \in {"done", "raised"} /\ \A i \in 1..Len(answers) : Malformed(answers[i])) =>
              /\ last.op = "ceiling"
              /\ executions = max_iters
              /\ Len(RunStates(states)) = max_iters + 1
              /\ \A i \in 2..Len(RunStates(states)) :
                    RunStates(states)[i].state_type = (IF i % 2 = 0 THEN "LLM" ELSE "ERROR")

\* C39: a Model.generate call made by a Think or LLM state changes no entry
\* of memory: every entry the execution found has the same role and content
\* afterwards, the system prompt included.
C39_GenerateLeavesMemory ==
    last.model_called =>
        /\ Len(context.memory) >= Len(last.memory_before)
        /\ SubSeq(context.memory, 1, Len(last.memory_before)) = last.memory_before

====
